---- MODULE Spec2Model ----
(***************************************************************************)
(* State-machine model of js/main.js of the portfolio website: the UI      *)
(* controllers that Portfolio constructs at load, their event handlers and *)
(* the timers they schedule.  Each controller has a specification of its   *)
(* own (the controllers share no state but the document); the variables of *)
(* the other controllers stay at their values after construction.          *)
(*                                                                         *)
(* Time is discrete.  A pending setTimeout callback is a record with the   *)
(* milliseconds left; a tick of a controller's clock subtracts the clock's *)
(* step from every pending callback, and is taken only when no callback is *)
(* due, so callbacks run in deadline order and, among equal deadlines, in  *)
(* creation order, as the browser's timer queue runs them.                 *)
(***************************************************************************)
EXTENDS Integers, Sequences, FiniteSets, TLC

VARIABLES
    \* ProjectGallery (filtering)
    cardCategory,   \* card -> its data-category
    cardStyle,      \* card -> [display, opacity, transform] inline style
    activeFilter,   \* data-filter of the button carrying 'active' ("" = none)
    filterTimers,   \* pending setTimeout callbacks of the filter handler
    \* FormManager
    field,          \* field name -> [value, borderColor, error]
    submitBtn,      \* [innerHTML, disabled] of the submit control
    banners,        \* number of success-message elements in the document
    formTimers,     \* pending setTimeout callbacks of the form controller
    formLast,       \* history: the last step of the form controller
    \* ThemeManager
    storedTheme,    \* local storage key 'theme': <<>> (no entry) or <<value>>
    currentTheme,   \* ThemeManager.currentTheme
    dataTheme,      \* the data-theme attribute of the document element
    themeLast,      \* history: the last step of the theme controller
    themePrev,      \* history: currentTheme before the last toggle
    \* The document and the window
    present,        \* the looked-up elements (DOM.*) the document holds
    layout,         \* [innerHeight, heights]: viewport and section heights
    pageYOffset,    \* window.pageYOffset
    scrollRequest,  \* top of the last window.scrollTo request (-1 = none)
    portfolio,      \* [state, constructed]: the script and its controllers
    \* Navigation
    nav,            \* the controller and the classes and styles it drives
    navTimers,      \* pending setTimeout callbacks of Navigation's throttle
    navLast,        \* history: the last step of the navigation controller
    \* ScrollManager
    backToTopVisible, \* #backToTop carries the class 'visible'
    scrollTimers,   \* pending setTimeout callbacks of ScrollManager's throttle
    scrollLast,     \* history: the last step of the scroll controller
    \* AnimationManager (reveal on scroll)
    inView,         \* observed element -> it intersects the observer's root
    anim,           \* observed element -> [observed, reported, opacity,
                    \*   transform, reveals]
    animQueue,      \* the observer's queued entries, not yet delivered
    animLast,       \* history: the last step of the animation controller
    \* PerformanceManager (keyboard navigation)
    keyboardNavigation, \* the body carries the class 'keyboard-navigation'
    modality,       \* history: the last Tab keydown or mousedown ("" = none)
    perfLast,       \* history: the last event PerformanceManager handled
    \* AnimationManager (typewriter)
    subtitleText,   \* the text of .hero-subtitle in the markup
    subtitle,       \* the textContent of .hero-subtitle
    typeIndex,      \* i, the index of the next character
    typeTimers,     \* pending setTimeout callbacks of the typewriter
    typeClock,      \* history: milliseconds since setupTypewriter
    typeLast,       \* history: the last step of the typewriter
    \* ScrollManager (in-page anchors)
    anchorEvent,    \* history: [href, prevented, requested] of the last click
                    \*   on an anchor a[href^="#"] outside the navbar
    \* A function made by debounce(func, wait, immediate)
    debWait,        \* the argument `wait`, in ticks of the clock
    debImmediate,   \* the argument `immediate`
    debTimeout,     \* timeout: <<>> (undefined, null) or the pending
                    \*   callback `later` with the arguments it closes over
    debBurst,       \* history: <<first, last>> arguments of the calls since
                    \*   the last call made with no callback pending
    debClock,       \* history: ticks since the last call
    debInvoked,     \* history: the arguments func was invoked with in the
                    \*   last step, <<>> if it was not
    debLast         \* history: the last step of the debounced function

galleryVars == <<cardCategory, cardStyle, activeFilter, filterTimers>>
formVars == <<field, submitBtn, banners, formTimers, formLast>>

themeVars == <<storedTheme, currentTheme, dataTheme, themeLast, themePrev>>

windowVars == <<present, layout, pageYOffset, scrollRequest, portfolio>>
navVars == <<nav, navTimers, navLast>>
scrollVars == <<backToTopVisible, scrollTimers, scrollLast>>
animVars == <<inView, anim, animQueue, animLast>>
perfVars == <<keyboardNavigation, modality, perfLast>>
typeVars ==
    <<subtitleText, subtitle, typeIndex, typeTimers, typeClock, typeLast>>
anchorVars == <<anchorEvent>>
debounceVars ==
    <<debWait, debImmediate, debTimeout, debBurst, debClock, debInvoked,
      debLast>>
otherVars == <<perfVars, typeVars, anchorVars, debounceVars>>

vars ==
    <<galleryVars, formVars, themeVars, windowVars, navVars, scrollVars,
      animVars, otherVars>>

\* What a step of one controller leaves alone: the other controllers' state.
notGallery ==
    <<formVars, themeVars, windowVars, navVars, scrollVars, animVars,
      otherVars>>
notForm ==
    <<galleryVars, themeVars, windowVars, navVars, scrollVars, animVars,
      otherVars>>
notTheme ==
    <<galleryVars, formVars, windowVars, navVars, scrollVars, animVars,
      otherVars>>
notNav ==
    <<galleryVars, formVars, themeVars, scrollVars, animVars, otherVars>>
notScroll ==
    <<galleryVars, formVars, themeVars, navVars, animVars, otherVars>>
notAnim ==
    <<galleryVars, formVars, themeVars, windowVars, navVars, scrollVars,
      otherVars>>
notPerf == <<typeVars, anchorVars, debounceVars>>
notType == <<perfVars, anchorVars, debounceVars>>
notAnchor == <<perfVars, typeVars, debounceVars>>
notDebounce == <<perfVars, typeVars, anchorVars>>
allButOther ==
    <<galleryVars, formVars, themeVars, windowVars, navVars, scrollVars,
      animVars>>

----------------------------------------------------------------------------
(* Helpers *)

Min(a, b) == IF a <= b THEN a ELSE b
Max(a, b) == IF a >= b THEN a ELSE b

RECURSIVE GCD(_, _)
GCD(a, b) == IF b = 0 THEN a ELSE GCD(b, a % b)

\* The sequence s without its i-th element.
RemoveAt(s, i) == [k \in 1..(Len(s) - 1) |-> IF k < i THEN s[k] ELSE s[k + 1]]

\* Index of the callback the timer queue runs next: the earliest created
\* among those that are due.  0 when none is due.
DueIndex(timers) ==
    IF \E i \in 1..Len(timers) : timers[i].left <= 0
    THEN CHOOSE i \in 1..Len(timers) :
            /\ timers[i].left <= 0
            /\ \A j \in 1..(i - 1) : timers[j].left > 0
    ELSE 0

\* Every pending callback `step` milliseconds later.
Elapse(timers, step) ==
    [i \in 1..Len(timers) |-> [timers[i] EXCEPT !.left = @ - step]]

----------------------------------------------------------------------------
(* ProjectGallery.setupProjectFiltering *)

NumCards == 2
MaxOverlap == 2

ShowDelay == 50
HideDelay == 300

Cards == 1..NumCards
Categories == {"web", "ml"}
Filters == {"all"} \cup Categories

FilterStep == GCD(HideDelay, ShowDelay)

\* The card passes the filter (main.js: filter === 'all' ||
\* card.dataset.category === filter).
FilterMatches(filter, category) == filter = "all" \/ category = filter

\* What the click handler does to one card's inline style at once.
FilterCardNow(style, matches) ==
    IF matches
    THEN [style EXCEPT !.display = "block"]
    ELSE [style EXCEPT !.opacity = "0", !.transform = "scale(0.8)"]

\* The callback the click handler schedules for one card.
FilterCardTimer(card, matches) ==
    IF matches
    THEN [card |-> card, kind |-> "show", left |-> ShowDelay]
    ELSE [card |-> card, kind |-> "hide", left |-> HideDelay]

\* What a callback does to its card's inline style when it runs.
FilterCardLater(style, kind) ==
    IF kind = "show"
    THEN [style EXCEPT !.opacity = "1", !.transform = "scale(1)"]
    ELSE [style EXCEPT !.display = "none"]

GalleryInit ==
    /\ cardCategory \in [Cards -> Categories]
    /\ cardStyle = [c \in Cards |->
                      [display |-> "", opacity |-> "0",
                       transform |-> "translateY(30px)"]]
    /\ activeFilter = ""
    /\ filterTimers = <<>>

GalleryIdle ==
    /\ cardCategory = [c \in Cards |-> "web"]
    /\ cardStyle = [c \in Cards |->
                      [display |-> "", opacity |-> "0",
                       transform |-> "translateY(30px)"]]
    /\ activeFilter = ""
    /\ filterTimers = <<>>

\* Click on the filter button whose data-filter is `filter`.
FilterBtnClick(filter) ==
    /\ Len(filterTimers) <= (MaxOverlap - 1) * NumCards
    /\ activeFilter' = filter
    /\ cardStyle' = [c \in Cards |->
            FilterCardNow(cardStyle[c], FilterMatches(filter, cardCategory[c]))]
    /\ filterTimers' = filterTimers \o
            [c \in Cards |->
                FilterCardTimer(c, FilterMatches(filter, cardCategory[c]))]
    /\ UNCHANGED <<cardCategory, notGallery>>

\* The next due callback of the filter handler runs.
FilterTimerFire ==
    /\ DueIndex(filterTimers) # 0
    /\ LET i == DueIndex(filterTimers)
           t == filterTimers[i]
       IN  /\ cardStyle' = [cardStyle EXCEPT
                                ![t.card] = FilterCardLater(@, t.kind)]
           /\ filterTimers' = RemoveAt(filterTimers, i)
    /\ UNCHANGED <<cardCategory, activeFilter, notGallery>>

\* Time passes while callbacks are pending and none is due.
FilterTick ==
    /\ filterTimers # <<>>
    /\ DueIndex(filterTimers) = 0
    /\ filterTimers' = Elapse(filterTimers, FilterStep)
    /\ UNCHANGED <<cardCategory, cardStyle, activeFilter, notGallery>>

NextGallery ==
    \/ \E f \in Filters : FilterBtnClick(f)
    \/ FilterTimerFire
    \/ FilterTick

----------------------------------------------------------------------------
(* FormManager *)

MaxEmailLen == 5
MaxPending == 2
MaxPendingForm == 1

SubmitDelay == 2000
BannerDelay == 5000

FormStep == GCD(BannerDelay, SubmitDelay)

\* Strings are sequences of characters.
Str(n, alphabet) == UNION {[1..k -> alphabet] : k \in 0..n}

Fields == {"name", "email", "subject", "message"}
requiredFields == <<"name", "email", "subject", "message">>

RequiredMsg == "This field is required"
EmailMsg == "Please enter a valid email address"
ErrorColor == "#ef4444"
OriginalLabel == "Send Message"
BusyLabel == "Sending..."

IsSpace(c) == c = " "

\* String.prototype.trim
RECURSIVE TrimLeft(_)
TrimLeft(s) ==
    IF s # <<>> /\ IsSpace(Head(s)) THEN TrimLeft(Tail(s)) ELSE s

RECURSIVE TrimRight(_)
TrimRight(s) ==
    IF s # <<>> /\ IsSpace(s[Len(s)])
    THEN TrimRight(SubSeq(s, 1, Len(s) - 1))
    ELSE s

Trim(s) == TrimRight(TrimLeft(s))

\* [^\s@]
EmailChar(c) == ~IsSpace(c) /\ c # "@"

\* A looser shape, /^[^\s@]+@[^\s@]+$/: the domain need not hold a '.'.
isValidEmailNoDot(email) ==
    \E i \in 2..(Len(email) - 1) :
        /\ email[i] = "@"
        /\ \A k \in (1..Len(email)) \ {i} : EmailChar(email[k])

\* /^[^\s@]+@[^\s@]+\.[^\s@]+$/.test(email)
isValidEmail(email) ==
    \E i \in 2..Len(email) :
        /\ email[i] = "@"
        /\ \A k \in (1..Len(email)) \ {i} : EmailChar(email[k])
        /\ \E j \in (i + 2)..(Len(email) - 1) : email[j] = "."

\* showFieldError that appends its message and removes none.
showFieldErrorAppending(fld, message) ==
    [fld EXCEPT !.borderColor = ErrorColor, !.error = message,
                !.errors = @ + 1]

\* showFieldError on one field: red border, an existing error message
\* removed, the new one appended.  `errors` counts the .error-message
\* elements beside the field and `error` is the text of the last one.
showFieldError(fld, message) ==
    [fld EXCEPT !.borderColor = ErrorColor, !.error = message,
                !.errors = (IF @ > 0 THEN @ - 1 ELSE 0) + 1]

\* clearFieldError on one field: border reset, one error message removed.
clearFieldError(fld) ==
    [fld EXCEPT !.borderColor = "",
                !.error = IF fld.errors > 1 THEN @ ELSE "",
                !.errors = IF @ > 0 THEN @ - 1 ELSE 0]

\* The required-fields test without the trim: !data[f]
MissingRequiredUntrimmed(value) == value = <<>>

\* validateForm, the required-fields loop: !data[f] || data[f].trim() === ''
MissingRequired(value) == value = <<>> \/ Trim(value) = <<>>

\* validateForm, the email test: data.email && !isValidEmail(data.email)
BadEmailOnSubmit(value) == value # <<>> /\ ~isValidEmail(value)

\* The value validateForm returns for the form data `flds`.
validateForm(flds) ==
    /\ \A k \in 1..Len(requiredFields) :
            ~MissingRequired(flds[requiredFields[k]].value)
    /\ ~BadEmailOnSubmit(flds["email"].value)

\* The fields as validateForm leaves them: an error on every missing
\* required field, then the email error over it.
validateFormShown(flds) ==
    LET afterRequired == [f \in Fields |->
            IF MissingRequired(flds[f].value)
            THEN showFieldError(flds[f], RequiredMsg)
            ELSE flds[f]]
    IN  IF BadEmailOnSubmit(flds["email"].value)
        THEN [afterRequired EXCEPT !["email"] = showFieldError(@, EmailMsg)]
        ELSE afterRequired

\* Markup: every field of the contact form carries the required attribute.
hasRequired(f) == TRUE

\* validateField: the result for field f holding `raw`.
validateFieldError(f, raw) ==
    LET value == Trim(raw)
    IN  IF hasRequired(f) /\ value = <<>> THEN RequiredMsg
        ELSE IF f = "email" /\ value # <<>> /\ ~isValidEmail(value) THEN EmailMsg
        ELSE ""

validateField(f, fld) ==
    LET msg == validateFieldError(f, fld.value)
    IN  IF msg = "" THEN clearFieldError(fld)
        ELSE showFieldError(clearFieldError(fld), msg)

\* form.reset(): every control back to its (empty) default value.
ResetForm(flds) == [f \in Fields |-> [flds[f] EXCEPT !.value = <<>>]]

EmptyField == [value |-> <<>>, borderColor |-> "", error |-> "", errors |-> 0]

FormInit ==
    /\ field = [f \in Fields |-> EmptyField]
    /\ submitBtn = [innerHTML |-> OriginalLabel, disabled |-> FALSE]
    /\ banners = 0
    /\ formTimers = <<>>
    /\ formLast = "load"

FormIdle == FormInit

\* input event: the user edits field f to hold v.
FieldInput(f, v) ==
    /\ field[f].value # v
    /\ field' = [field EXCEPT ![f] = clearFieldError([@ EXCEPT !.value = v])]
    /\ formLast' = "input"
    /\ UNCHANGED <<submitBtn, banners, formTimers, notForm>>

\* blur event on field f.
FieldBlur(f) ==
    /\ field' = [field EXCEPT ![f] = validateField(f, @)]
    /\ formLast' = "blur"
    /\ UNCHANGED <<submitBtn, banners, formTimers, notForm>>

\* handleContactForm when validateForm fails: errors shown, early return.
SubmitRejected ==
    /\ ~validateForm(field)
    /\ field' = validateFormShown(field)
    /\ formLast' = "rejected"
    /\ UNCHANGED <<submitBtn, banners, formTimers, notForm>>

\* handleContactForm when validateForm passes: busy state, 2000 ms timer.
SubmitAccepted ==
    /\ Len(formTimers) < MaxPending
    /\ validateForm(field)
    /\ field' = validateFormShown(field)
    /\ submitBtn' = [innerHTML |-> BusyLabel, disabled |-> TRUE]
    /\ formTimers' = Append(formTimers,
            [kind |-> "submit", left |-> SubmitDelay,
             originalText |-> submitBtn.innerHTML])
    /\ formLast' = "accepted"
    /\ UNCHANGED <<banners, notForm>>

\* submit event on the contact form.
handleContactForm == SubmitRejected \/ SubmitAccepted

\* The 2000 ms callback with a showFormSuccess that replaces the banner on
\* show: the earlier banners and their removal timers are dropped.
SubmitTimerFireReplacing ==
    /\ DueIndex(formTimers) # 0
    /\ LET i == DueIndex(formTimers)
           t == formTimers[i]
           IsSubmit(x) == x.kind = "submit"
       IN  /\ t.kind = "submit"
           /\ banners' = 1
           /\ formTimers' = Append(SelectSeq(RemoveAt(formTimers, i), IsSubmit),
                    [kind |-> "dismiss", left |-> BannerDelay,
                     originalText |-> ""])
           /\ field' = ResetForm(field)
           /\ submitBtn' = [innerHTML |-> t.originalText, disabled |-> FALSE]
    /\ formLast' = "success"
    /\ UNCHANGED notForm

\* The 2000 ms callback: showFormSuccess, reset, button restored.
SubmitTimerFire ==
    /\ DueIndex(formTimers) # 0
    /\ LET i == DueIndex(formTimers)
           t == formTimers[i]
       IN  /\ t.kind = "submit"
           /\ banners' = banners + 1
           /\ formTimers' = Append(RemoveAt(formTimers, i),
                    [kind |-> "dismiss", left |-> BannerDelay,
                     originalText |-> ""])
           /\ field' = ResetForm(field)
           /\ submitBtn' = [innerHTML |-> t.originalText, disabled |-> FALSE]
    /\ formLast' = "success"
    /\ UNCHANGED notForm

\* The 5000 ms callback without its successDiv.remove().
BannerTimerFireKeeping ==
    /\ DueIndex(formTimers) # 0
    /\ LET i == DueIndex(formTimers)
       IN  /\ formTimers[i].kind = "dismiss"
           /\ formTimers' = RemoveAt(formTimers, i)
    /\ formLast' = "dismiss"
    /\ UNCHANGED <<field, submitBtn, banners, notForm>>

\* The 5000 ms callback of showFormSuccess: its banner is removed.
BannerTimerFire ==
    /\ DueIndex(formTimers) # 0
    /\ LET i == DueIndex(formTimers)
       IN  /\ formTimers[i].kind = "dismiss"
           /\ banners' = banners - 1
           /\ formTimers' = RemoveAt(formTimers, i)
    /\ formLast' = "dismiss"
    /\ UNCHANGED <<field, submitBtn, notForm>>

FormTick ==
    /\ formTimers # <<>>
    /\ DueIndex(formTimers) = 0
    /\ formTimers' = Elapse(formTimers, FormStep)
    /\ formLast' = "tick"
    /\ UNCHANGED <<field, submitBtn, banners, notForm>>

TextSamples == {<<>>, <<" ">>, <<"a">>}
EmailSamples == {<<>>, <<" ">>, <<"a", "@", "b", ".", "c">>, <<"a", "@", "b">>,
                 <<" ", "a", "@", "b", ".", "c">>}
Samples(f) == IF f = "email" THEN EmailSamples ELSE TextSamples

ValidSample(f) ==
    IF f = "email" THEN <<"a", "@", "b", ".", "c">> ELSE <<"a">>

EmailAlphabet == {"a", "@", ".", " "}

\* The form with every sample value in every field, and no more than
\* MaxPendingForm callbacks pending when a submission is accepted.
NextForm ==
    \/ \E f \in Fields : \E v \in Samples(f) : FieldInput(f, v)
    \/ \E f \in Fields : FieldBlur(f)
    \/ SubmitRejected
    \/ (Len(formTimers) < MaxPendingForm /\ SubmitAccepted)
    \/ SubmitTimerFire
    \/ BannerTimerFire
    \/ FormTick

\* The form filled in with valid values only: the timing of submissions.
NextSubmit ==
    \/ \E f \in Fields : FieldInput(f, ValidSample(f))
    \/ handleContactForm
    \/ SubmitTimerFire
    \/ BannerTimerFire
    \/ FormTick

\* The form holding any email address, never edited: validation of emails.
EmailInit ==
    /\ \E e \in Str(MaxEmailLen, EmailAlphabet) :
            field = [f \in Fields |->
                [EmptyField EXCEPT
                    !.value = IF f = "email" THEN e ELSE ValidSample(f)]]
    /\ submitBtn = [innerHTML |-> OriginalLabel, disabled |-> FALSE]
    /\ banners = 0
    /\ formTimers = <<>>
    /\ formLast = "load"

NextEmail ==
    \/ \E f \in Fields \ {"email"} :
            \E v \in {<<>>, ValidSample(f)} : FieldInput(f, v)
    \/ \E f \in Fields : FieldBlur(f)
    \/ handleContactForm
    \/ SubmitTimerFire
    \/ BannerTimerFire
    \/ FormTick

----------------------------------------------------------------------------
(* ThemeManager *)

\* What local storage may hold under the key 'theme' when the page loads:
\* what the script wrote, or what anything else of the same origin wrote.
StoredSamples == {"light", "dark", "", "blue", "Dark"}

\* The other default: localStorage.getItem('theme') || 'dark'
ThemeAtLoadDark(stored) ==
    IF stored = <<>> \/ stored[1] = "" THEN "dark" ELSE stored[1]

\* localStorage.getItem('theme') || 'light'
ThemeAtLoad(stored) ==
    IF stored = <<>> \/ stored[1] = "" THEN "light" ELSE stored[1]

\* this.currentTheme === 'light' ? 'dark' : 'light'
Toggled(theme) == IF theme = "light" THEN "dark" ELSE "light"

\* The state after `new ThemeManager()` on a page whose storage is `stored`.
ThemeConstructed(stored) ==
    /\ currentTheme = ThemeAtLoad(stored)
    /\ dataTheme = currentTheme
    /\ storedTheme = stored

ThemeIdle ==
    /\ ThemeConstructed(<<>>)
    /\ themeLast = "load"
    /\ themePrev = ""

\* Click on .theme-toggle, once ThemeManager has bound it: toggleTheme.
toggleTheme ==
    /\ portfolio.constructed = 7
    /\ currentTheme' = Toggled(currentTheme)
    /\ dataTheme' = currentTheme'
    /\ storedTheme' = <<currentTheme'>>
    /\ themeLast' = "toggle"
    /\ themePrev' = currentTheme
    /\ UNCHANGED notTheme

----------------------------------------------------------------------------
(* The document: the elements main.js looks up, the sections, the nav links *)

Elements == {"navbar", "navToggle", "navMenu", "backToTop", "contactForm"}

Has(e) == e \in present

\* Markup: the sections carrying an id, in document order, laid out one
\* below the other from the top of the page, and one nav link per section.
SectionIds == <<"home", "about", "contact">>
Sections == 1..Len(SectionIds)
NavLinks == 1..Len(SectionIds)
NavHref(l) == "#" \o SectionIds[l]

SectionHeights == {300, 2100}
InnerHeights == {600}
ScrollGrain == 300

Layouts ==
    [innerHeight : InnerHeights, heights : [Sections -> SectionHeights]]

RECURSIVE SumTo(_, _)
SumTo(h, n) == IF n = 0 THEN 0 ELSE h[n] + SumTo(h, n - 1)

\* Top of section i in page coordinates.
SectionTop(lay, i) == SumTo(lay.heights, i - 1)

\* The scroll positions the window can be at.
MaxScrollTop(lay) ==
    Max(0, SumTo(lay.heights, Len(SectionIds)) - lay.innerHeight)

ScrollPositions(lay) ==
    {y \in 0..MaxScrollTop(lay) : y % ScrollGrain = 0}

\* getBoundingClientRect of section i with the window scrolled to y.
SectionRect(lay, i, y) ==
    [top |-> SectionTop(lay, i) - y,
     bottom |-> SectionTop(lay, i) + lay.heights[i] - y]

\* The script after `new Portfolio()` has constructed all seven controllers.
Ready == [state |-> "ready", constructed |-> 7]

WindowIdle ==
    /\ present = Elements
    /\ layout = [innerHeight |-> 600, heights |-> [i \in Sections |-> 300]]
    /\ pageYOffset = 0
    /\ scrollRequest = -1
    /\ portfolio = Ready

----------------------------------------------------------------------------
(* Utility functions *)

NavOffset == 80

\* smoothScrollToElement relative to the viewport: pageYOffset left out.
smoothScrollTopRelative(rect, y) == rect.top - NavOffset

\* smoothScrollToElement: the top it asks window.scrollTo for.
smoothScrollTop(rect, y) == rect.top + y - NavOffset

\* isElementInViewport(element, threshold) with threshold = num / den.
\* A division by a zero height yields NaN or -Infinity: not >= threshold.
isElementInViewport(rect, innerHeight, num, den) ==
    LET elementHeight == rect.bottom - rect.top
        visibleHeight == Min(rect.bottom, innerHeight) - Max(rect.top, 0)
    IN  elementHeight # 0 /\ visibleHeight * den >= num * elementHeight

----------------------------------------------------------------------------
(* Navigation *)

scrollThreshold == 100
NavThrottle == 16

Uncaught(n) == [n EXCEPT !.uncaught = TRUE]

\* toggleMobileMenu; a missing element ends it with a TypeError.
toggleMobileMenu(n) ==
    LET n1 == [n EXCEPT !.isMenuOpen = ~@]
        n2 == [n1 EXCEPT !.toggleActive = ~@]
    IN  IF ~Has("navToggle") THEN Uncaught(n1)
        ELSE IF ~Has("navMenu") THEN Uncaught(n2)
        ELSE [n2 EXCEPT !.menuActive = ~@,
                        !.bodyOverflow = IF n1.isMenuOpen THEN "hidden" ELSE ""]

\* closeMobileMenu without its document.body.style.overflow = ''.
closeMobileMenuLocked(n) ==
    LET n1 == [n EXCEPT !.isMenuOpen = FALSE]
        n2 == [n1 EXCEPT !.toggleActive = FALSE]
    IN  IF ~Has("navToggle") THEN Uncaught(n1)
        ELSE IF ~Has("navMenu") THEN Uncaught(n2)
        ELSE [n2 EXCEPT !.menuActive = FALSE]

\* closeMobileMenu
closeMobileMenu(n) ==
    LET n1 == [n EXCEPT !.isMenuOpen = FALSE]
        n2 == [n1 EXCEPT !.toggleActive = FALSE]
    IN  IF ~Has("navToggle") THEN Uncaught(n1)
        ELSE IF ~Has("navMenu") THEN Uncaught(n2)
        ELSE [n2 EXCEPT !.menuActive = FALSE, !.bodyOverflow = ""]

\* handleNavbarScroll
handleNavbarScroll(n, y) ==
    IF ~Has("navbar") THEN Uncaught(n)
    ELSE [n EXCEPT !.navbarScrolled = y > scrollThreshold]

\* updateActiveNavLink without its link.classList.remove('active').
updateActiveNavLinkKeep(active, sectionId) ==
    [l \in NavLinks |-> active[l] \/ NavHref(l) = "#" \o sectionId]

\* updateActiveNavLink: the 'active' class of every nav link afterwards.
updateActiveNavLink(active, sectionId) ==
    [l \in NavLinks |-> NavHref(l) = "#" \o sectionId]

\* The loop keeping the first section that qualifies, not the last.
CurrentSectionFirst(lay, y, i) ==
    LET q == {k \in 1..i :
                isElementInViewport(SectionRect(lay, k, y), lay.innerHeight,
                                    3, 10)}
    IN  IF q = {} THEN ""
        ELSE SectionIds[CHOOSE k \in q : \A m \in q : k <= m]

\* updateActiveSection, the loop: the id of the last section in document
\* order that is at least 30% visible, '' when there is none.
RECURSIVE CurrentSection(_, _, _)
CurrentSection(lay, y, i) ==
    IF i = 0 THEN ""
    ELSE IF isElementInViewport(SectionRect(lay, i, y), lay.innerHeight, 3, 10)
         THEN SectionIds[i]
         ELSE CurrentSection(lay, y, i - 1)

\* updateActiveSection
updateActiveSection(n, lay, y) ==
    LET current == CurrentSection(lay, y, Len(SectionIds))
    IN  IF current # n.activeSection
        THEN [n EXCEPT !.activeSection = current,
                       !.linkActive = updateActiveNavLink(@, current)]
        ELSE n

\* The document's click listener of Navigation.bindEvents, for a click on
\* an element inside (or outside) the navbar.
documentClick(n, insideNavbar) ==
    IF ~n.isMenuOpen THEN n
    ELSE IF ~Has("navbar") THEN Uncaught(n)
    ELSE IF insideNavbar THEN n
    ELSE closeMobileMenu(n)

\* The scroll listener of Navigation.bindEvents, inside throttle: a
\* TypeError of handleNavbarScroll ends it before updateActiveSection.
navScrollListener(n, lay, y) ==
    LET n1 == handleNavbarScroll(n, y)
    IN  IF n1.uncaught /\ ~Has("navbar") THEN n1
        ELSE updateActiveSection(n1, lay, y)

\* The controller as its constructor's first three lines leave it, with the
\* classes of the markup.  `clicked` is the nav link of the last click
\* event handled by handleNavClick (0: none yet) and `prevented` whether
\* that event had its default action prevented.
NavNew ==
    [isMenuOpen |-> FALSE, activeSection |-> "<null>",
     toggleActive |-> FALSE, menuActive |-> FALSE, bodyOverflow |-> "",
     navbarScrolled |-> FALSE, linkActive |-> [l \in NavLinks |-> FALSE],
     uncaught |-> FALSE, clicked |-> 0, prevented |-> FALSE]

\* Navigation.init after bindEvents: updateActiveSection, handleNavbarScroll.
NavConstructed(lay, y) ==
    handleNavbarScroll(updateActiveSection(NavNew, lay, y), y)

NavInit ==
    /\ present = Elements
    /\ layout \in Layouts
    /\ pageYOffset = 0
    /\ scrollRequest = -1
    /\ portfolio = Ready
    /\ nav = NavConstructed(layout, pageYOffset)
    /\ navTimers = <<>>
    /\ navLast = "load"

NavIdle ==
    /\ nav = NavConstructed(
                [innerHeight |-> 600, heights |-> [i \in Sections |-> 300]], 0)
    /\ navTimers = <<>>
    /\ navLast = "load"

\* Click on #nav-toggle (inside the navbar): its listener, then the
\* document's.
NavToggleClick ==
    /\ portfolio.state # "loading"
    /\ Has("navToggle")
    /\ nav' = documentClick(toggleMobileMenu(nav), TRUE)
    /\ navLast' = "toggle"
    /\ UNCHANGED <<windowVars, navTimers, notNav>>

\* Click on nav link l (inside the navbar): handleNavClick, then the
\* document's listener.  Every nav link is an anchor of a section.
NavLinkClick(l) ==
    /\ portfolio.state # "loading"
    /\ scrollRequest' =
            smoothScrollTop(SectionRect(layout, l, pageYOffset), pageYOffset)
    /\ nav' = documentClick(
                closeMobileMenu([nav EXCEPT !.clicked = l, !.prevented = TRUE]),
                TRUE)
    /\ navLast' = "link"
    /\ UNCHANGED <<present, layout, pageYOffset, portfolio, navTimers, notNav>>

\* Click on an element outside the navbar: the document's listener.
OutsideClick ==
    /\ portfolio.state # "loading"
    /\ nav' = documentClick(nav, FALSE)
    /\ navLast' = "outside"
    /\ UNCHANGED <<windowVars, navTimers, notNav>>

\* keydown: Escape
EscapeKey ==
    /\ portfolio.state # "loading"
    /\ nav' = IF nav.isMenuOpen THEN closeMobileMenu(nav) ELSE nav
    /\ navLast' = "escape"
    /\ UNCHANGED <<windowVars, navTimers, notNav>>

\* scroll event with the window at y: the throttled listener runs unless
\* it ran within the last 16 ms; a TypeError in it leaves inThrottle unset.
NavScroll(y) ==
    /\ portfolio.state # "loading"
    /\ pageYOffset' = y
    /\ IF navTimers # <<>>
       THEN UNCHANGED <<nav, navTimers>>
       ELSE /\ nav' = navScrollListener(nav, layout, y)
            /\ navTimers' = IF Has("navbar")
                            THEN <<[left |-> NavThrottle]>>
                            ELSE <<>>
    /\ navLast' = IF navTimers # <<>> THEN "throttled" ELSE "scroll"
    /\ UNCHANGED <<present, layout, scrollRequest, portfolio, notNav>>

\* The throttle's callback: inThrottle = false.
NavThrottleFire ==
    /\ DueIndex(navTimers) # 0
    /\ navTimers' = RemoveAt(navTimers, DueIndex(navTimers))
    /\ navLast' = "unthrottled"
    /\ UNCHANGED <<windowVars, nav, notNav>>

NavTick ==
    /\ navTimers # <<>>
    /\ DueIndex(navTimers) = 0
    /\ navTimers' = Elapse(navTimers, NavThrottle)
    /\ navLast' = "tick"
    /\ UNCHANGED <<windowVars, nav, notNav>>

NextNav ==
    \/ NavToggleClick
    \/ \E l \in NavLinks : NavLinkClick(l)
    \/ OutsideClick
    \/ EscapeKey
    \/ \E y \in ScrollPositions(layout) : NavScroll(y)
    \/ NavThrottleFire
    \/ NavTick

----------------------------------------------------------------------------
(* ScrollManager *)

BackToTopThreshold == 500
ScrollThrottle == 100
ScrollSpan == 2

\* The scroll positions tried around the threshold.
BackToTopPositions ==
    {0} \cup ((BackToTopThreshold - ScrollSpan)..(BackToTopThreshold + ScrollSpan))

\* updateBackToTop with the comparison >= in place of >.
updateBackToTopAtLeast(visible, y) ==
    IF Has("backToTop") THEN y >= BackToTopThreshold ELSE visible

\* updateBackToTop: the 'visible' class of #backToTop afterwards.
updateBackToTop(visible, y) ==
    IF Has("backToTop") THEN y > BackToTopThreshold ELSE visible

ScrollInit ==
    /\ present = Elements
    /\ layout = [innerHeight |-> 600, heights |-> [i \in Sections |-> 300]]
    /\ pageYOffset \in BackToTopPositions
    /\ scrollRequest = -1
    /\ portfolio = Ready
    /\ backToTopVisible = updateBackToTop(FALSE, pageYOffset)
    /\ scrollTimers = <<>>
    /\ scrollLast = "load"

ScrollIdle ==
    /\ backToTopVisible = FALSE
    /\ scrollTimers = <<>>
    /\ scrollLast = "load"

\* The scroll listener without throttle: updateBackToTop on every event.
BackToTopScrollEveryCall(y) ==
    /\ pageYOffset' = y
    /\ backToTopVisible' = updateBackToTop(backToTopVisible, y)
    /\ scrollTimers' = IF scrollTimers = <<>>
                       THEN <<[left |-> ScrollThrottle]>>
                       ELSE scrollTimers
    /\ scrollLast' = "update"
    /\ UNCHANGED <<present, layout, scrollRequest, portfolio, notScroll>>

\* scroll event with the window at y: the throttled listener runs
\* updateBackToTop unless it ran within the last 100 ms.
BackToTopScroll(y) ==
    /\ pageYOffset' = y
    /\ IF scrollTimers # <<>>
       THEN /\ scrollLast' = "throttled"
            /\ UNCHANGED <<backToTopVisible, scrollTimers>>
       ELSE /\ backToTopVisible' = updateBackToTop(backToTopVisible, y)
            /\ scrollTimers' = <<[left |-> ScrollThrottle]>>
            /\ scrollLast' = "update"
    /\ UNCHANGED <<present, layout, scrollRequest, portfolio, notScroll>>

\* Click on #backToTop: scrollToTop.
BackToTopClick ==
    /\ Has("backToTop")
    /\ scrollRequest' = 0
    /\ scrollLast' = "top"
    /\ UNCHANGED <<present, layout, pageYOffset, portfolio,
                   backToTopVisible, scrollTimers, notScroll>>

\* Markup: the href of the anchors a[href^="#"] outside the navbar, as the
\* '#' and the fragment after it: one of a section, a bare '#', and one
\* that names no element.
AnchorHrefs ==
    {[hash |-> TRUE, fragment |-> f] : f \in {"contact", "", "missing"}}

\* document.querySelector('#' + fragment): the section found, 0 for null.
querySelector(fragment) ==
    IF \E i \in Sections : SectionIds[i] = fragment
    THEN CHOOSE i \in Sections : SectionIds[i] = fragment
    ELSE 0

\* handleSmoothScroll with preventDefault ahead of the lookup, as
\* handleNavClick has it.
handleSmoothScrollPreventFirst(href, lay, y) ==
    LET target == querySelector(href.fragment)
    IN  IF ~href.hash \/ href.fragment = "" THEN
            [prevented |-> FALSE, requested |-> FALSE, top |-> -1]
        ELSE IF target # 0 THEN
            [prevented |-> TRUE, requested |-> TRUE,
             top |-> smoothScrollTop(SectionRect(lay, target, y), y)]
        ELSE [prevented |-> TRUE, requested |-> FALSE, top |-> -1]

\* handleSmoothScroll for a click on an anchor with this href: whether the
\* default was prevented, and the top asked of window.scrollTo, if any.
handleSmoothScroll(href, lay, y) ==
    LET target == querySelector(href.fragment)
    IN  IF ~href.hash \/ href.fragment = "" THEN
            [prevented |-> FALSE, requested |-> FALSE, top |-> -1]
        ELSE IF target # 0 THEN
            [prevented |-> TRUE, requested |-> TRUE,
             top |-> smoothScrollTop(SectionRect(lay, target, y), y)]
        ELSE [prevented |-> FALSE, requested |-> FALSE, top |-> -1]

AnchorIdle ==
    anchorEvent = [href |-> [hash |-> TRUE, fragment |-> ""],
                   prevented |-> FALSE, requested |-> FALSE]

\* Click on an anchor outside the navbar: handleSmoothScroll, then the
\* document's click listener of Navigation.
AnchorClick(href) ==
    /\ LET r == handleSmoothScroll(href, layout, pageYOffset)
       IN /\ anchorEvent' = [href |-> href, prevented |-> r.prevented,
                             requested |-> r.requested]
          /\ scrollRequest' = IF r.requested THEN r.top ELSE scrollRequest
    /\ nav' = documentClick(nav, FALSE)
    /\ scrollLast' = "anchor"
    /\ UNCHANGED <<present, layout, pageYOffset, portfolio, navTimers, navLast,
                   backToTopVisible, scrollTimers, galleryVars, formVars,
                   themeVars, animVars, notAnchor>>

\* The throttle's callback: inThrottle = false.
ScrollThrottleFire ==
    /\ DueIndex(scrollTimers) # 0
    /\ scrollTimers' = RemoveAt(scrollTimers, DueIndex(scrollTimers))
    /\ scrollLast' = "unthrottled"
    /\ UNCHANGED <<windowVars, backToTopVisible, notScroll>>

ScrollTick ==
    /\ scrollTimers # <<>>
    /\ DueIndex(scrollTimers) = 0
    /\ scrollTimers' = Elapse(scrollTimers, ScrollThrottle)
    /\ scrollLast' = "tick"
    /\ UNCHANGED <<windowVars, backToTopVisible, notScroll>>

NextScroll ==
    \/ \E y \in BackToTopPositions : BackToTopScroll(y)
    \/ BackToTopClick
    \/ \E href \in AnchorHrefs : AnchorClick(href)
    \/ ScrollThrottleFire
    \/ ScrollTick

----------------------------------------------------------------------------
(* AnimationManager: elements revealed when they scroll into view *)

NumObserved == 4
Observed == 1..NumObserved

\* An observed element as the markup has it, before the script runs.
AnimMarkup ==
    [e \in Observed |->
        [observed |-> FALSE, reported |-> "none", opacity |-> "",
         transform |-> "", reveals |-> 0]]

\* observeElements: every element hidden and handed to the observer.
observeElements(a) ==
    [e \in Observed |->
        [a[e] EXCEPT !.opacity = "0", !.transform = "translateY(30px)",
                     !.observed = TRUE, !.reported = "none"]]

\* animateElement without its this.observer.unobserve(element).
animateElementObserved(el) ==
    [el EXCEPT !.opacity = "1", !.transform = "translateY(0)",
               !.reveals = @ + 1]

\* animateElement on one element; `reveals` counts its executions.
animateElement(el) ==
    [el EXCEPT !.opacity = "1", !.transform = "translateY(0)",
               !.observed = FALSE, !.reveals = @ + 1]

Reported(isIntersecting) == IF isIntersecting THEN "in" ELSE "out"

\* The entries the IntersectionObserver queues in one rendering update, in
\* document order: one for each target it observes whose isIntersecting is
\* not what the observer last reported (the first report included).
ObserverEntries(a, view) ==
    LET all == [e \in Observed |->
                    [target |-> e, isIntersecting |-> view[e]]]
        Changed(en) ==
            /\ a[en.target].observed
            /\ a[en.target].reported # Reported(en.isIntersecting)
    IN  SelectSeq(all, Changed)

ObserverReported(a, view) ==
    [e \in Observed |->
        IF a[e].observed
        THEN [a[e] EXCEPT !.reported = Reported(view[e])]
        ELSE a[e]]

\* The observer's callback: entries.forEach(entry => { if
\* (entry.isIntersecting) this.animateElement(entry.target) })
RECURSIVE observerCallback(_, _)
observerCallback(a, entries) ==
    IF entries = <<>> THEN a
    ELSE LET en == Head(entries)
         IN  observerCallback(
                IF en.isIntersecting
                THEN [a EXCEPT ![en.target] = animateElement(@)]
                ELSE a,
                Tail(entries))

AnimIdle ==
    /\ inView = [e \in Observed |-> FALSE]
    /\ anim = observeElements(AnimMarkup)
    /\ animQueue = <<>>
    /\ animLast = "load"

\* After `new AnimationManager()`, before the first rendering update.
AnimInit ==
    /\ inView \in [Observed -> BOOLEAN]
    /\ anim = observeElements(AnimMarkup)
    /\ animQueue = <<>>
    /\ animLast = "load"

\* A rendering update: scrolling has moved elements into or out of view
\* (`view`), and the observer queues its entries.  The task that delivers
\* queued entries runs before the next rendering update.
RenderingUpdate(view) ==
    /\ animQueue = <<>>
    /\ view # inView \/ \E e \in Observed : anim[e].reported = "none"
    /\ inView' = view
    /\ animQueue' = ObserverEntries(anim, view)
    /\ anim' = ObserverReported(anim, view)
    /\ animLast' = "frame"
    /\ UNCHANGED notAnim

\* The observer delivers its queued entries to the callback.
ObserverNotify ==
    /\ animQueue # <<>>
    /\ anim' = observerCallback(anim, animQueue)
    /\ animQueue' = <<>>
    /\ animLast' = "callback"
    /\ UNCHANGED <<inView, notAnim>>

NextAnim ==
    \/ \E view \in [Observed -> BOOLEAN] : RenderingUpdate(view)
    \/ ObserverNotify

----------------------------------------------------------------------------
(* PerformanceManager.setupKeyboardNavigation *)

\* The keys pressed: Tab, Escape and one key of no special meaning.
Keys == {"Tab", "Escape", "Enter"}

\* The keydown listener adding the class on every key, not only on Tab.
keydownClassAnyKey(cls, key) == TRUE

\* The keydown listener: the 'keyboard-navigation' class of the body
\* afterwards.  Escape removes 'active' from an open modal; the document
\* holds none.
keydownClass(cls, key) == IF key = "Tab" THEN TRUE ELSE cls

\* The mousedown listener: the class is removed.
mousedownClass(cls) == FALSE

PerfIdle ==
    /\ keyboardNavigation = FALSE
    /\ modality = ""
    /\ perfLast = "load"

\* keydown of key k: the listeners of the document in the order they were
\* added, Navigation's (Escape closes the menu), then PerformanceManager's.
KeyDown(k) ==
    /\ portfolio.state # "loading"
    /\ nav' = IF k = "Escape" /\ nav.isMenuOpen THEN closeMobileMenu(nav)
              ELSE nav
    /\ navLast' = IF k = "Escape" THEN "escape" ELSE navLast
    /\ keyboardNavigation' = keydownClass(keyboardNavigation, k)
    /\ modality' = IF k = "Tab" THEN "Tab" ELSE modality
    /\ perfLast' = k
    /\ UNCHANGED <<galleryVars, formVars, themeVars, windowVars, navTimers,
                   scrollVars, animVars, notPerf>>

\* mousedown anywhere in the document.
MouseDown ==
    /\ portfolio.state # "loading"
    /\ keyboardNavigation' = mousedownClass(keyboardNavigation)
    /\ modality' = "mousedown"
    /\ perfLast' = "mousedown"
    /\ UNCHANGED <<allButOther, notPerf>>

NextPerf ==
    \/ \E k \in Keys : KeyDown(k)
    \/ MouseDown
    \/ NavToggleClick
    \/ \E l \in NavLinks : NavLinkClick(l)
    \/ OutsideClick

----------------------------------------------------------------------------
(* AnimationManager.setupTypewriter *)

TypeStartDelay == 1000
TypeCharDelay == 100
TypeStep == GCD(TypeStartDelay, TypeCharDelay)

\* The texts .hero-subtitle holds in the markup.
MaxSubtitleLen == 3
SubtitleAlphabet == {"a", "b"}
SubtitleTexts == Str(MaxSubtitleLen, SubtitleAlphabet)

\* The clock stops counting past the end of the longest effect.
TypeClockCap == TypeStartDelay + TypeCharDelay * (MaxSubtitleLen + 2)

\* typeWriter without its test i < text.length: charAt past the end is ''.
typeWriterUnguarded(text, sub, i) ==
    [subtitle |-> IF i < Len(text) THEN Append(sub, text[i + 1]) ELSE sub,
     i |-> i + 1,
     again |-> TRUE]

\* typeWriter: the text and the index afterwards, and whether the callback
\* has scheduled itself again.
typeWriter(text, sub, i) ==
    IF i < Len(text)
    THEN [subtitle |-> Append(sub, text[i + 1]), i |-> i + 1, again |-> TRUE]
    ELSE [subtitle |-> sub, i |-> i, again |-> FALSE]

\* The markup, before setupTypewriter.
TypeBefore ==
    /\ subtitleText = <<"a", "b">>
    /\ subtitle = subtitleText
    /\ typeIndex = 0
    /\ typeTimers = <<>>
    /\ typeClock = 0
    /\ typeLast = "load"

\* After setupTypewriter: the text taken out, the start delay running.
TypeInit ==
    /\ subtitleText \in SubtitleTexts
    /\ subtitle = <<>>
    /\ typeIndex = 0
    /\ typeTimers = <<[left |-> TypeStartDelay]>>
    /\ typeClock = 0
    /\ typeLast = "setup"

TypeIdle ==
    /\ subtitleText = <<"a", "b">>
    /\ subtitle = <<>>
    /\ typeIndex = 0
    /\ typeTimers = <<[left |-> TypeStartDelay]>>
    /\ typeClock = 0
    /\ typeLast = "setup"

\* A callback of setTimeout(typeWriter, ...) runs.
TypeTimerFire ==
    /\ DueIndex(typeTimers) # 0
    /\ LET r == typeWriter(subtitleText, subtitle, typeIndex)
           rest == RemoveAt(typeTimers, DueIndex(typeTimers))
       IN /\ subtitle' = r.subtitle
          /\ typeIndex' = Min(r.i, MaxSubtitleLen + 1)
          /\ typeTimers' = IF r.again
                           THEN Append(rest, [left |-> TypeCharDelay])
                           ELSE rest
          /\ typeLast' = IF r.subtitle # subtitle THEN "type" ELSE "end"
    /\ UNCHANGED <<subtitleText, typeClock, allButOther, notType>>

TypeTick ==
    /\ typeTimers # <<>>
    /\ DueIndex(typeTimers) = 0
    /\ typeTimers' = Elapse(typeTimers, TypeStep)
    /\ typeClock' = Min(typeClock + TypeStep, TypeClockCap)
    /\ typeLast' = "tick"
    /\ UNCHANGED <<subtitleText, subtitle, typeIndex, allButOther, notType>>

NextType ==
    \/ TypeTimerFire
    \/ TypeTick

----------------------------------------------------------------------------
(* debounce(func, wait, immediate) *)

\* The waits tried, in ticks of the clock, and the arguments of the calls.
MaxWait == 3
MaxArg == 3
DebounceArgs == 1..MaxArg

\* The call without clearTimeout and the new setTimeout while a callback is
\* pending: the first call's `later` stays.
debouncedCallKeeping(timeout, wait, args) ==
    IF timeout # <<>> THEN timeout
    ELSE <<[left |-> wait, args |-> args]>>

\* executedFunction(...args): clearTimeout(timeout), then
\* timeout = setTimeout(later, wait) with `later` closed over these args.
debouncedCall(timeout, wait, args) == <<[left |-> wait, args |-> args]>>

\* The debounced function as created, for each wait and `immediate`.
DebounceInit ==
    /\ debWait \in 1..MaxWait
    /\ debImmediate \in BOOLEAN
    /\ debTimeout = <<>>
    /\ debBurst = <<>>
    /\ debClock = 0
    /\ debInvoked = <<>>
    /\ debLast = "load"

DebounceIdle == DebounceInit /\ debWait = 1 /\ ~debImmediate

\* A call of the debounced function with the argument a.
DebouncedCall(a) ==
    /\ debTimeout' = debouncedCall(debTimeout, debWait, a)
    /\ debInvoked' = IF debImmediate /\ debTimeout = <<>> THEN <<a>> ELSE <<>>
    /\ debBurst' = IF debTimeout = <<>> THEN <<a, a>> ELSE <<debBurst[1], a>>
    /\ debClock' = 0
    /\ debLast' = "call"
    /\ UNCHANGED <<debWait, debImmediate, allButOther, notDebounce>>

\* `later` runs: timeout = null, and func(...args) unless immediate.
DebounceTimerFire ==
    /\ DueIndex(debTimeout) # 0
    /\ debTimeout' = <<>>
    /\ debInvoked' = IF debImmediate THEN <<>> ELSE <<debTimeout[1].args>>
    /\ debLast' = "fire"
    /\ UNCHANGED <<debWait, debImmediate, debBurst, debClock, allButOther,
                   notDebounce>>

DebounceTick ==
    /\ debTimeout # <<>>
    /\ DueIndex(debTimeout) = 0
    /\ debTimeout' = Elapse(debTimeout, 1)
    /\ debClock' = Min(debClock + 1, debWait)
    /\ debInvoked' = <<>>
    /\ debLast' = "tick"
    /\ UNCHANGED <<debWait, debImmediate, debBurst, allButOther, notDebounce>>

NextDebounce ==
    \/ \E a \in DebounceArgs : DebouncedCall(a)
    \/ DebounceTimerFire
    \/ DebounceTick

----------------------------------------------------------------------------
(* Portfolio: the page load, from `new Portfolio()` to the last controller *)

\* The state of the other controllers before and after construction.
OtherBefore == PerfIdle /\ TypeBefore /\ AnchorIdle /\ DebounceIdle
OtherIdle == PerfIdle /\ TypeIdle /\ AnchorIdle /\ DebounceIdle

\* The document before the script runs: markup only, nothing constructed.
MarkupStyle == [display |-> "", opacity |-> "", transform |-> ""]
HiddenStyle ==
    [display |-> "", opacity |-> "0", transform |-> "translateY(30px)"]

PageBefore ==
    /\ pageYOffset = 0
    /\ scrollRequest = -1
    /\ portfolio = [state |-> "loading", constructed |-> 0]
    /\ nav = NavNew
    /\ navTimers = <<>>
    /\ navLast = "load"
    /\ backToTopVisible = FALSE
    /\ scrollTimers = <<>>
    /\ scrollLast = "load"
    /\ currentTheme = ""
    /\ dataTheme = ""
    /\ themeLast = "load"
    /\ themePrev = ""
    /\ cardStyle = [c \in Cards |-> MarkupStyle]
    /\ inView = [e \in Observed |-> FALSE]
    /\ anim = AnimMarkup
    /\ animQueue = <<>>
    /\ animLast = "load"
    /\ OtherBefore

PageInit ==
    /\ present \in SUBSET Elements
    /\ layout = [innerHeight |-> 600, heights |-> [i \in Sections |-> 300]]
    /\ storedTheme \in {<<>>} \cup {<<v>> : v \in StoredSamples}
    /\ PageBefore
    /\ cardCategory = [c \in Cards |-> "web"]
    /\ activeFilter = ""
    /\ filterTimers = <<>>
    /\ FormIdle

\* The k-th controller is constructed; the seventh makes the script ready.
Proceed(k) ==
    [state |-> IF k = 7 THEN "ready" ELSE "loading", constructed |-> k]

Constructing(k) == portfolio = [state |-> "loading", constructed |-> k - 1]

\* new Navigation(): bindEvents, updateActiveSection, handleNavbarScroll.
\* A TypeError ends `new Portfolio()`; the listeners stay bound.
ConstructNavigation ==
    /\ Constructing(1)
    /\ nav' = NavConstructed(layout, pageYOffset)
    /\ portfolio' = IF nav'.uncaught
                    THEN [state |-> "failed", constructed |-> 0]
                    ELSE Proceed(1)
    /\ UNCHANGED <<present, layout, pageYOffset, scrollRequest, navTimers,
                   navLast, scrollVars, galleryVars, formVars, themeVars,
                   animVars, otherVars>>

\* new ScrollManager(): bindEvents, updateBackToTop.
ConstructScrollManager ==
    /\ Constructing(2)
    /\ backToTopVisible' = updateBackToTop(backToTopVisible, pageYOffset)
    /\ portfolio' = Proceed(2)
    /\ UNCHANGED <<present, layout, pageYOffset, scrollRequest, scrollTimers,
                   scrollLast, navVars, galleryVars, formVars, themeVars,
                   animVars, otherVars>>

\* new FormManager(), new PerformanceManager(), new ProjectGallery(): each
\* binds its listeners, behind optional access where an element is looked up.
ConstructBinding(k) ==
    /\ Constructing(k)
    /\ portfolio' = Proceed(k)
    /\ UNCHANGED <<present, layout, pageYOffset, scrollRequest, navVars,
                   scrollVars, galleryVars, formVars, themeVars, animVars,
                   otherVars>>

\* new AnimationManager(): observeElements hides every observed element,
\* setupTypewriter takes the subtitle out and starts the delay.
ConstructAnimationManager ==
    /\ Constructing(4)
    /\ cardStyle' = [c \in Cards |-> HiddenStyle]
    /\ anim' = observeElements(anim)
    /\ subtitle' = <<>>
    /\ typeTimers' = <<[left |-> TypeStartDelay]>>
    /\ typeLast' = "setup"
    /\ portfolio' = Proceed(4)
    /\ UNCHANGED <<present, layout, pageYOffset, scrollRequest, navVars,
                   scrollVars, cardCategory, activeFilter, filterTimers,
                   formVars, themeVars, inView, animQueue, animLast,
                   perfVars, subtitleText, typeIndex, typeClock, anchorVars,
                   debounceVars>>

\* new ThemeManager(): the stored preference read and applied.
ConstructThemeManager ==
    /\ Constructing(7)
    /\ currentTheme' = ThemeAtLoad(storedTheme)
    /\ dataTheme' = currentTheme'
    /\ portfolio' = Proceed(7)
    /\ UNCHANGED <<present, layout, pageYOffset, scrollRequest, navVars,
                   scrollVars, galleryVars, formVars, storedTheme, themeLast,
                   themePrev, animVars, otherVars>>

\* The page is loaded again: the document is new, the storage is kept.
PageReload ==
    /\ portfolio.state # "loading"
    /\ pageYOffset' = 0
    /\ scrollRequest' = -1
    /\ portfolio' = [state |-> "loading", constructed |-> 0]
    /\ nav' = NavNew
    /\ navTimers' = <<>>
    /\ navLast' = "load"
    /\ backToTopVisible' = FALSE
    /\ scrollTimers' = <<>>
    /\ scrollLast' = "load"
    /\ currentTheme' = ""
    /\ dataTheme' = ""
    /\ themeLast' = "load"
    /\ themePrev' = ""
    /\ cardStyle' = [c \in Cards |-> MarkupStyle]
    /\ inView' = [e \in Observed |-> FALSE]
    /\ anim' = AnimMarkup
    /\ animQueue' = <<>>
    /\ animLast' = "load"
    /\ subtitle' = subtitleText
    /\ typeTimers' = <<>>
    /\ typeLast' = "load"
    /\ UNCHANGED <<present, layout, storedTheme, cardCategory, activeFilter,
                   filterTimers, formVars, perfVars, subtitleText, typeIndex,
                   typeClock, anchorVars, debounceVars>>

NextPage ==
    \/ ConstructNavigation
    \/ ConstructScrollManager
    \/ \E k \in {3, 5, 6} : ConstructBinding(k)
    \/ ConstructAnimationManager
    \/ ConstructThemeManager
    \/ PageReload
    \/ NavToggleClick
    \/ \E l \in NavLinks : NavLinkClick(l)
    \/ OutsideClick
    \/ EscapeKey
    \/ \E y \in {0, ScrollGrain} : NavScroll(y)
    \/ NavThrottleFire
    \/ NavTick
    \/ toggleTheme

----------------------------------------------------------------------------
(* Specifications: one per controller *)

InitGallery ==
    GalleryInit /\ FormIdle /\ ThemeIdle /\ WindowIdle /\ NavIdle /\ ScrollIdle
    /\ AnimIdle /\ OtherIdle
SpecGallery == InitGallery /\ [][NextGallery]_vars

InitForm ==
    GalleryIdle /\ FormInit /\ ThemeIdle /\ WindowIdle /\ NavIdle /\ ScrollIdle
    /\ AnimIdle /\ OtherIdle
SpecForm == InitForm /\ [][NextForm]_vars
SpecSubmit == InitForm /\ [][NextSubmit]_vars

\* The timers of the form with the browser's guarantees: time passes, and
\* a callback that is due runs.
SpecBanner ==
    /\ InitForm
    /\ [][NextSubmit]_vars
    /\ WF_vars(FormTick)
    /\ WF_vars(SubmitTimerFire)
    /\ WF_vars(BannerTimerFire)

InitEmail ==
    GalleryIdle /\ EmailInit /\ ThemeIdle /\ WindowIdle /\ NavIdle /\ ScrollIdle
    /\ AnimIdle /\ OtherIdle
SpecEmail == InitEmail /\ [][NextEmail]_vars

InitNav ==
    GalleryIdle /\ FormIdle /\ ThemeIdle /\ NavInit /\ ScrollIdle /\ AnimIdle
    /\ OtherIdle
SpecNav == InitNav /\ [][NextNav]_vars

InitScroll ==
    GalleryIdle /\ FormIdle /\ ThemeIdle /\ ScrollInit /\ NavIdle /\ AnimIdle
    /\ OtherIdle
SpecScroll == InitScroll /\ [][NextScroll]_vars

InitPage == PageInit

InitAnim ==
    GalleryIdle /\ FormIdle /\ ThemeIdle /\ WindowIdle /\ NavIdle /\ ScrollIdle
    /\ AnimInit /\ OtherIdle
SpecAnim == InitAnim /\ [][NextAnim]_vars
InitPerf ==
    GalleryIdle /\ FormIdle /\ ThemeIdle /\ WindowIdle /\ NavIdle /\ ScrollIdle
    /\ AnimIdle /\ OtherIdle
SpecPerf == InitPerf /\ [][NextPerf]_vars
InitType ==
    GalleryIdle /\ FormIdle /\ ThemeIdle /\ WindowIdle /\ NavIdle /\ ScrollIdle
    /\ AnimIdle /\ PerfIdle /\ TypeInit /\ AnchorIdle /\ DebounceIdle
\* The timers of the typewriter with the browser's guarantees: time passes,
\* and a callback that is due runs.
SpecType ==
    /\ InitType
    /\ [][NextType]_vars
    /\ WF_vars(TypeTick)
    /\ WF_vars(TypeTimerFire)
InitDebounce ==
    GalleryIdle /\ FormIdle /\ ThemeIdle /\ WindowIdle /\ NavIdle /\ ScrollIdle
    /\ AnimIdle /\ PerfIdle /\ TypeIdle /\ AnchorIdle /\ DebounceInit
SpecDebounce == InitDebounce /\ [][NextDebounce]_vars
SpecPage == InitPage /\ [][NextPage]_vars

----------------------------------------------------------------------------
(* Claims *)

CardDisplayed(c) == cardStyle[c].display # "none"

\* C1: once every pending filter callback has run, a card is displayed
\* exactly when the most recently selected filter is "all" or equals the
\* card's category.
C1_SettledMatchesFilter ==
    (activeFilter # "" /\ filterTimers = <<>>) =>
        \A c \in Cards :
            CardDisplayed(c) <=> FilterMatches(activeFilter, cardCategory[c])

\* A value that is empty or holds only whitespace.
BlankValue(v) == \A k \in 1..Len(v) : v[k] = " "

\* The shape local@domain.tld: three non-empty parts free of whitespace
\* and of '@', joined by one '@' and a '.'.
LocalDomainTld(e) ==
    \E i \in 1..Len(e) : \E j \in 1..Len(e) :
        /\ 1 < i /\ i + 1 < j /\ j < Len(e)
        /\ e[i] = "@" /\ e[j] = "."
        /\ \A k \in (1..Len(e)) \ {i} : e[k] # "@" /\ e[k] # " "

\* The step is a submit event handled by handleContactForm.
SubmitStep == formLast' \in {"rejected", "accepted"}

SubmissionPending == \E i \in 1..Len(formTimers) : formTimers[i].kind = "submit"

AllFieldsEmpty == \A f \in Fields : field[f].value = <<>>

\* C2: a valid submit disables the control and shows the busy label; the
\* banner, the reset and the re-enabling with the original label come with
\* the submission's 2000 ms timer and not before it: while the timer of a
\* submission is pending the control is disabled and busy, and when a
\* submission completes a banner is shown, the form is empty and the
\* control is enabled under its original label.
C2_SubmitContract ==
    /\ formLast = "accepted" => SubmissionPending
    /\ SubmissionPending =>
            submitBtn.disabled /\ submitBtn.innerHTML = BusyLabel
    /\ formLast = "success" =>
            /\ banners >= 1
            /\ AllFieldsEmpty
            /\ ~submitBtn.disabled
            /\ submitBtn.innerHTML = OriginalLabel

\* C3: a submit with some required field empty or whitespace-only shows an
\* error on every such field and is aborted: values, submit control, timers
\* and banners are as before; and a banner only ever appears when the timer
\* of an accepted submission runs.
C3_BlankSubmitAborted ==
    [][ /\ (SubmitStep /\ \E f \in Fields : BlankValue(field[f].value)) =>
              /\ formLast' = "rejected"
              /\ \A f \in Fields :
                    BlankValue(field[f].value) => field'[f].error # ""
              /\ \A f \in Fields : field'[f].value = field[f].value
              /\ submitBtn' = submitBtn
              /\ formTimers' = formTimers
              /\ banners' = banners
        /\ banners' > banners =>
              /\ formLast' = "success"
              /\ \E i \in 1..Len(formTimers) :
                    formTimers[i].kind = "submit" /\ formTimers[i].left <= 0
      ]_vars

C3_Witness ==
    /\ formLast = "rejected"
    /\ field["name"].value = <<" ">> /\ field["name"].error = RequiredMsg
    /\ field["subject"].value = <<>> /\ field["subject"].error = RequiredMsg
    /\ field["message"].value = <<"a">> /\ field["message"].error = ""
    /\ field["email"].value = ValidSample("email")
    /\ field["email"].error = ""

\* C4: a submit whose email value is not of the shape local@domain.tld, the
\* other three fields being valid, is blocked (no timer, no reset) and
\* leaves an error on the email field and on no other field.
C4_BadEmailBlocked ==
    [][ ( /\ SubmitStep
          /\ ~LocalDomainTld(field["email"].value)
          /\ \A f \in Fields \ {"email"} : ~BlankValue(field[f].value) ) =>
              /\ formLast' = "rejected"
              /\ formTimers' = formTimers
              /\ submitBtn' = submitBtn
              /\ \A f \in Fields : field'[f].value = field[f].value
              /\ field'["email"].error # ""
              /\ \A f \in Fields \ {"email"} : field'[f].error = ""
      ]_vars

C4_Witness ==
    /\ formLast = "rejected"
    /\ field["email"].value = <<"a", "@", "a">>
    /\ field["email"].error = EmailMsg
    /\ \A f \in Fields \ {"email"} :
            field[f].value = ValidSample(f) /\ field[f].error = ""

ActiveLinks == {l \in NavLinks : nav.linkActive[l]}

\* C5: after every execution of updateBackToTop, at load and in a scroll
\* event that is not throttled, the back-to-top control carries 'visible'
\* exactly when the scroll position is greater than 500.
C5_VisibleIffPast500 ==
    scrollLast \in {"load", "update"} =>
        (backToTopVisible <=> pageYOffset > 500)

C5_Witness ==
    /\ scrollLast = "update"
    /\ pageYOffset = 501
    /\ backToTopVisible

\* C8: at most one navigation link carries the class 'active'.
C8_AtMostOneActive == Cardinality(ActiveLinks) <= 1

C8_Witness ==
    /\ navLast = "scroll"
    /\ ActiveLinks = {3}
    /\ nav.activeSection = "contact"

KnownThemes == {"light", "dark"}

\* The step is a click on the theme toggle.
ToggleStep == themeLast' = "toggle" /\ currentTheme' # currentTheme

\* C6: a click on the theme toggle flips currentTheme between light and
\* dark, sets data-theme and the stored value to the new theme, and a second
\* click in a row restores the theme the first one found; a ThemeManager
\* constructed after a toggle applies the value that toggle left.
C6_ToggleFlipsAndPersists ==
    [][ /\ ToggleStep =>
              /\ {currentTheme, currentTheme'} = KnownThemes
              /\ dataTheme' = currentTheme'
              /\ storedTheme' = <<currentTheme'>>
              /\ themeLast = "toggle" => currentTheme' = themePrev
        /\ (portfolio'.constructed = 7 /\ portfolio.constructed = 6
                /\ storedTheme \in {<<t>> : t \in KnownThemes}) =>
              currentTheme' = storedTheme[1] /\ dataTheme' = storedTheme[1]
      ]_vars

\* C7: from the construction of ThemeManager on, currentTheme and data-theme
\* are "light" or "dark", and so is every value a toggle has stored.
C7_ThemeIsKnown ==
    portfolio.constructed = 7 =>
        /\ currentTheme \in KnownThemes
        /\ dataTheme \in KnownThemes
        /\ themeLast = "toggle" => storedTheme \in {<<t>> : t \in KnownThemes}

\* C9: a ThemeManager constructed while the storage holds no 'theme' entry
\* applies "light", and the storage changes only in a toggle click, to the
\* theme that click selects.
C9_DefaultLightNoWrite ==
    /\ [](( /\ portfolio.constructed = 7
            /\ themeLast = "load"
            /\ storedTheme = <<>> ) =>
                currentTheme = "light" /\ dataTheme = "light")
    /\ [][ storedTheme' # storedTheme =>
              /\ themeLast' = "toggle"
              /\ portfolio.constructed = 7
              /\ storedTheme' = <<currentTheme'>>
         ]_vars

C9_Witness ==
    /\ portfolio = Ready
    /\ themeLast = "load"
    /\ storedTheme = <<>>
    /\ dataTheme = "light"

\* C10: whichever looked-up elements are absent, no constructor and no
\* handler throws, and a page that has left loading has all seven
\* controllers.
C10_AbsentElementsNoOp ==
    /\ ~nav.uncaught
    /\ portfolio.state # "loading" => portfolio = Ready

Revealed(e) == anim[e].reveals >= 1

\* C11: an observed element goes from pending to revealed and never back:
\* animateElement runs at most once per element, a revealed element is
\* shown and no longer observed, and no later step changes it, whatever
\* enters or leaves the viewport afterwards.
C11_RevealOnce ==
    /\ [](\A e \in Observed :
            /\ anim[e].reveals <= 1
            /\ Revealed(e) <=> ~anim[e].observed
            /\ Revealed(e) =>
                  anim[e].opacity = "1" /\ anim[e].transform = "translateY(0)"
            /\ ~Revealed(e) =>
                  anim[e].opacity = "0"
                  /\ anim[e].transform = "translateY(30px)")
    /\ [][\A e \in Observed : Revealed(e) => anim'[e] = anim[e]]_vars

C11_Witness ==
    /\ animLast = "callback"
    /\ Revealed(1) /\ ~inView[1]
    /\ Revealed(2) /\ inView[2]
    /\ ~Revealed(3)

\* C12: the four pieces of menu state agree: isMenuOpen, 'active' on the
\* toggle, 'active' on the menu, and body overflow 'hidden'.
C12_MenuStateAgrees ==
    /\ nav.isMenuOpen <=> nav.toggleActive
    /\ nav.isMenuOpen <=> nav.menuActive
    /\ nav.isMenuOpen <=> nav.bodyOverflow = "hidden"
    /\ nav.bodyOverflow \in {"", "hidden"}

C12_Witness ==
    /\ navLast = "toggle"
    /\ nav.isMenuOpen /\ nav.toggleActive /\ nav.menuActive
    /\ nav.bodyOverflow = "hidden"

VisibleFraction30(lay, y, i) ==
    LET top == SumTo(lay.heights, i - 1) - y
        bottom == top + lay.heights[i]
        visible == (IF bottom < lay.innerHeight THEN bottom
                    ELSE lay.innerHeight) - (IF top > 0 THEN top ELSE 0)
    IN  lay.heights[i] > 0 /\ 10 * visible >= 3 * lay.heights[i]

ExpectedSection ==
    LET q == {i \in Sections : VisibleFraction30(layout, pageYOffset, i)}
    IN  IF q = {} THEN ""
        ELSE SectionIds[CHOOSE i \in q : \A k \in q : k <= i]

\* C14: after each run of updateActiveSection (at load and in a scroll
\* event that is not throttled) activeSection is the id of the last
\* section at least 30% visible, '' if there is none, and the active links
\* are exactly the links whose href is '#' and that id.
C14_ActiveSectionIsLastVisible ==
    navLast \in {"load", "scroll"} =>
        /\ nav.activeSection = ExpectedSection
        /\ ActiveLinks = {l \in NavLinks : NavHref(l) = "#" \o ExpectedSection}

C14_Witness ==
    /\ navLast = "scroll"
    /\ Cardinality({i \in Sections :
                        VisibleFraction30(layout, pageYOffset, i)}) = 2
    /\ nav.activeSection = "contact"
    /\ ActiveLinks = {3}

\* C15: once the throttle interval of ScrollManager's scroll listener has
\* elapsed with no scroll event pending, the 'visible' class of the
\* back-to-top control agrees with the scroll position: visible exactly
\* when pageYOffset > 500.
C15_SettledAgreesWithPosition ==
    scrollTimers = <<>> => (backToTopVisible <=> pageYOffset > 500)

DismissPending ==
    Cardinality({i \in 1..Len(formTimers) : formTimers[i].kind = "dismiss"})

\* C16: every success banner has a pending removal timer of its own, so
\* that no banner remains once all timers have fired; a removal takes away
\* one banner; and removals keep running as long as banners keep being
\* shown: either they run again and again or no banner is left for good.
C16_BannerRemovedByTimer ==
    /\ [](banners = DismissPending)
    /\ [][formLast' = "dismiss" => banners' = banners - 1]_vars
    /\ ([]<><<BannerTimerFire>>_vars \/ <>[](banners = 0))

C16_Witness ==
    /\ formLast = "dismiss"
    /\ banners = 0
    /\ formTimers = <<>>

\* Every pending callback of formTimers is still pending in formTimers'.
TimersKept ==
    \A i \in 1..Len(formTimers) :
        \E j \in 1..Len(formTimers') :
            /\ formTimers'[j].kind = formTimers[i].kind
            /\ formTimers'[j].left = formTimers[i].left

\* C17: no pending timer is cancelled by a later action: a submit and the
\* completion of a submission keep every other pending callback, and each
\* completion adds a banner to those shown, so banners stack.
C17_NoTimerCancelled ==
    [][ /\ formLast' = "accepted" => TimersKept
        /\ formLast' = "success" =>
              /\ banners' = banners + 1
              /\ DismissPending' = DismissPending + 1
      ]_vars

C17_Witness ==
    /\ formLast = "success"
    /\ banners = 2
    /\ DismissPending = 2

\* C18: once every submission timer has fired, the submit control is
\* enabled and shows its original label, also when a submit event arrived
\* while an earlier submission was pending.
C18_ControlRestored ==
    ~SubmissionPending =>
        ~submitBtn.disabled /\ submitBtn.innerHTML = OriginalLabel

\* What a blur must report for field f holding v: the trimmed value is
\* empty and the field is required, or f is the email field and the
\* trimmed value is not empty and not of the shape local@domain.tld.
ExpectBlurError(f, v) ==
    \/ hasRequired(f) /\ BlankValue(v)
    \/ f = "email" /\ ~BlankValue(v) /\ ~LocalDomainTld(Trim(v))

\* C19: a blur leaves an inline error on the field exactly when its trimmed
\* value is empty or, for the email field, is not of the email shape; an
\* input event on a field removes its error; and a field never has more
\* than one inline error message.
C19_BlurValidation ==
    /\ [](\A f \in Fields :
            /\ field[f].errors <= 1
            /\ field[f].errors = 1 <=> field[f].error # "")
    /\ [][\A f \in Fields :
            /\ (formLast' = "blur" /\ FieldBlur(f)) =>
                  (field'[f].error # "" <=> ExpectBlurError(f, field[f].value))
            /\ (formLast' = "input" /\ field'[f].value # field[f].value) =>
                  field'[f].error = "" /\ field'[f].errors = 0
         ]_vars

C19_Witness ==
    /\ formLast = "blur"
    /\ field["name"].value = <<" ">>
    /\ field["name"].error = RequiredMsg /\ field["name"].errors = 1
    /\ field["email"].value = <<"a", "@", "b">>
    /\ field["email"].error = EmailMsg /\ field["email"].errors = 1
    /\ field["subject"].value = <<"a">> /\ field["subject"].error = ""

\* validateForm reports an error for field f holding v.
SubmitReports(f, v) ==
    MissingRequired(v) \/ (f = "email" /\ BadEmailOnSubmit(v))

\* C20: blur-time and submit-time validation agree: a blur leaves no error
\* on a field exactly when a submit would report none for it.
C20_BlurAgreesWithSubmit ==
    [][\A f \in Fields :
            (formLast' = "blur" /\ FieldBlur(f)) =>
                (field'[f].error = "" <=> ~SubmitReports(f, field[f].value))
      ]_vars

\* Section i covers the whole viewport: its top is at or above the viewport
\* top and its bottom at or below the viewport bottom.
CoversViewport(lay, y, i) ==
    /\ SumTo(lay.heights, i - 1) - y <= 0
    /\ SumTo(lay.heights, i) - y >= lay.innerHeight

\* C25: after a run of updateActiveSection, a section that covers the whole
\* viewport is the active section.
C25_CoveringSectionActive ==
    navLast \in {"load", "scroll"} =>
        \A i \in Sections :
            CoversViewport(layout, pageYOffset, i) =>
                nav.activeSection = SectionIds[i]

\* C21: the body carries 'keyboard-navigation' exactly when the last of the
\* Tab keydowns and mousedowns so far was a Tab keydown: absent before the
\* first Tab, added by Tab, removed by mousedown, kept by every other key.
C21_ClassFollowsModality == keyboardNavigation <=> modality = "Tab"

\* Tab, then another key: the class is still there; and mousedown, then
\* another key: the class is still absent.
C21_Witness ==
    /\ perfLast = "Enter"
    /\ modality = "Tab"
    /\ keyboardNavigation

IsPrefix(s, t) ==
    /\ Len(s) <= Len(t)
    /\ \A k \in 1..Len(s) : s[k] = t[k]

\* The number of characters due by the time c, and strictly before it: the
\* first at the end of the start delay, one more every 100 ms.
TypedBy(c) ==
    IF c < TypeStartDelay THEN 0
    ELSE Min(Len(subtitleText), (c - TypeStartDelay) \div TypeCharDelay + 1)

TypedBefore(c) == IF c = 0 THEN 0 ELSE TypedBy(c - 1)

\* C22: the subtitle is empty until the start delay of 1000 ms has run;
\* from then on it is the prefix of the original text that one character
\* per 100 ms gives; it ends as the whole text with no callback pending;
\* and once the text is whole no step schedules a callback (the callback
\* that types the last character has scheduled the last one, which types
\* nothing and schedules none).
C22_TypewriterCompletes ==
    /\ [](IsPrefix(subtitle, subtitleText))
    /\ [](Len(subtitle) = IF DueIndex(typeTimers) # 0
                          THEN TypedBefore(typeClock)
                          ELSE TypedBy(typeClock))
    /\ <>[](subtitle = subtitleText /\ typeTimers = <<>>)
    /\ [][subtitle = subtitleText => Len(typeTimers') <= Len(typeTimers)]_vars

\* A text of two characters or more typed to its end, the last callback run.
C22_Witness ==
    /\ Len(subtitleText) >= 2
    /\ subtitle = subtitleText
    /\ typeTimers = <<>>
    /\ typeLast = "end"
    /\ typeClock = TypeStartDelay + TypeCharDelay * Len(subtitleText)

\* A call of the throttled scroll listener, and a call that has run the
\* wrapped function.
ThrottledCall == scrollLast' \in {"update", "throttled"}
WrappedRan == scrollLast' = "update"

\* Less than the limit has passed since the wrapped function last ran: the
\* callback that ends the interval is pending and not yet due.
InsideInterval == scrollTimers # <<>> /\ DueIndex(scrollTimers) = 0

\* C23: throttle(func, limit) as ScrollManager uses it (limit 100 ms).  A
\* call runs the wrapped function at once when no run lies within the
\* interval before it (the first call, or the interval has ended), and is
\* dropped when one does; a run starts a new interval, so there is one run
\* per interval at most; and no step but a call runs the function, so a
\* dropped call is never replayed.  The interval ends when the callback
\* set at the run has run.
C23_ThrottleLeadingOnly ==
    [][/\ ThrottledCall /\ scrollTimers = <<>> =>
            /\ WrappedRan
            /\ backToTopVisible' = updateBackToTop(backToTopVisible, pageYOffset')
       /\ ThrottledCall /\ InsideInterval =>
            /\ ~WrappedRan
            /\ UNCHANGED <<backToTopVisible, scrollTimers>>
       /\ WrappedRan =>
            /\ ~InsideInterval
            /\ scrollTimers' = <<[left |-> ScrollThrottle]>>
       /\ ~ThrottledCall => backToTopVisible' = backToTopVisible]_vars

\* A scroll past the threshold dropped inside the interval: the control is
\* still hidden, and stays so when the interval ends.
C23_Witness ==
    /\ scrollLast = "unthrottled"
    /\ pageYOffset > BackToTopThreshold
    /\ ~backToTopVisible

\* The section an href names, 0 when it is a bare '#' or names none.
AnchorTarget(href) ==
    IF href.fragment # "" /\ \E i \in Sections : SectionIds[i] = href.fragment
    THEN CHOOSE i \in Sections : SectionIds[i] = href.fragment
    ELSE 0

\* C24: a click on an anchor outside the navbar whose href names a section
\* prevents the default and asks the window to scroll to the section's top
\* in the viewport plus pageYOffset less 80; a click on one whose href is a
\* bare '#' or names no element prevents nothing and asks for no scroll.
C24_AnchorClickScrolls ==
    [][scrollLast' = "anchor" =>
        LET i == AnchorTarget(anchorEvent'.href)
        IN  IF i # 0
            THEN /\ anchorEvent'.prevented
                 /\ scrollRequest' =
                        (SumTo(layout.heights, i - 1) - pageYOffset)
                            + pageYOffset - 80
            ELSE /\ ~anchorEvent'.prevented
                 /\ scrollRequest' = scrollRequest]_vars

\* The anchor of the section 'contact' clicked with the window scrolled.
C24_Witness ==
    /\ scrollLast = "anchor"
    /\ anchorEvent.href.fragment = "contact"
    /\ anchorEvent.prevented
    /\ pageYOffset > 0
    /\ scrollRequest = 520

\* func was invoked in the step, and with which arguments.
Invoked == debInvoked' # <<>>

\* C26: with `immediate` unset, no call invokes func, and the callback that
\* ends a burst invokes it once, `wait` after the last call of the burst
\* and with that call's arguments.  With `immediate` set, func is invoked
\* by the first call of a burst alone, with that call's arguments: no
\* callback invokes it, nor a call made while the callback of an earlier
\* call is pending, and the callback is gone only when `wait` has passed
\* since the last call.
C26_DebounceOncePerBurst ==
    [][/\ debTimeout = <<>> /\ debBurst # <<>> => debClock = debWait
       /\ debLast' = "tick" => ~Invoked
       /\ ~debImmediate /\ debLast' = "call" => ~Invoked
       /\ ~debImmediate /\ debLast' = "fire" =>
            /\ debInvoked' = <<debBurst[2]>>
            /\ debClock = debWait
            /\ debTimeout' = <<>>
       /\ debImmediate /\ debLast' = "fire" => ~Invoked
       /\ debImmediate /\ debLast' = "call" =>
            IF debTimeout = <<>>
            THEN debInvoked' = <<debBurst'[1]>> /\ debBurst'[1] = debBurst'[2]
            ELSE ~Invoked]_vars

\* A burst of calls with different arguments ended by its callback: func
\* has run with the last call's.
C26_Witness ==
    /\ ~debImmediate
    /\ debWait > 1
    /\ debLast = "fire"
    /\ debBurst = <<1, 2>>
    /\ debInvoked = <<2>>

====
